---- MODULE Spec2Model ----
(***************************************************************************)
(* WebTorrentRemoteServer (src/unnamed/part_000): the broker that runs one *)
(* lazily created WebTorrent instance on behalf of several remote clients. *)
(* One action per handler: receive(message) for each message type, the     *)
(* sendUpdates interval tick, the 'listening' callback of a torrent's      *)
(* server, the delayed kill timer of handleDestroy, and the events of the  *)
(* engine.  Every handler runs to completion (single-threaded event loop). *)
(***************************************************************************)
EXTENDS Integers, Sequences, FiniteSets, TLC

\* ---------------------------------------------------------------- bounds
MaxTime == 2            \* the clock (new Date().getTime()) runs 0..MaxTime
MaxSubscriptions == 2   \* subscriptions held at a time, over all torrents
MaxPending == 2         \* callbacks pending at a time, over all torrents

\* ---------------------------------------------------------------- inputs
ClientKeys == {"a", "b"}
TorrentKeys == {"k1", "k2"}
\* The torrent keys a client uses: "k1" is a key both clients generated.
KeysUsedBy(clientKey) == IF clientKey = "a" THEN {"k1", "k2"} ELSE {"k1"}
InfoHashes == {"X", "Y"}
Ports == {8000, 8001}
Delays == {0, 1}
Timeouts == {1}

\* JS null and undefined; both falsy.  Records, so that they compare with
\* the records that stand for objects.
Null == [null |-> TRUE]
Undefined == [undefined |-> TRUE]

\* A torrent identifier as a client may send it: a bare info hash, a magnet
\* URI naming the hash, something that is no torrent identifier, or nothing.
TorrentIDs ==
    [kind : {"hash", "magnet"}, infoHash : InfoHashes]
        \cup {[kind |-> "invalid"], [kind |-> "missing"]}

\* parseTorrent(torrentID): the parsed torrent, or a throw ('Invalid torrent
\* identifier') for anything that is neither a hash nor a magnet URI.
ParseTorrent(torrentID) ==
    IF torrentID.kind \in {"hash", "magnet"}
    THEN [threw |-> FALSE, infoHash |-> torrentID.infoHash]
    ELSE [threw |-> TRUE]

\* 'http://localhost:' + addr.port
ServerURL(port) == [url |-> "http://localhost:", port |-> port]

\* ----------------------------------------------------------------- state
VARIABLES
    webtorrent,        \* server._webtorrent: Null or the engine [torrents]
    clients,           \* server._clients: clientKey -> {clientKey, heartbeat}
    torrents,          \* server._torrents: the torrent objects, in order
    timers,            \* pending setTimeout(kill, delay) of handleDestroy
    now,               \* new Date().getTime()
    options,           \* server._options (heartbeatTimeout, when configured)
    sent,              \* what the handler that just ran passed to server._send
    last,              \* the handler that just ran: its input, its engine calls
    scenario           \* what this run exercises, see Scenarios

vars == <<webtorrent, clients, torrents, timers, now, options, sent, last, scenario>>

\* The calls a handler makes on the engine.
NoFx ==
    [created |-> FALSE,        \* new WebTorrent(options)
     added |-> {},             \* wt.add(torrentID): info hashes joined
     torrentsDestroyed |-> {}, \* torrent.destroy()
     destroyed |-> FALSE,      \* wt.destroy()
     listen |-> {},            \* torrent.server.listen(cb)
     kill |-> FALSE,           \* killClients was called
     killed |-> {},            \* with these client keys
     threw |-> FALSE]          \* the handler ended by an exception

\* The mutable server, threaded through the statements of a handler.
Server ==
    [webtorrent |-> webtorrent, clients |-> clients, torrents |-> torrents,
     timers |-> timers, sent |-> <<>>, fx |-> NoFx]

\* --------------------------------------------------------------- helpers
\* Array.prototype.find / findIndex: the first index that satisfies P, or 0.
FindIndex(seq, P(_)) ==
    IF \E i \in 1..Len(seq) : P(seq[i])
    THEN CHOOSE i \in 1..Len(seq) : P(seq[i]) /\ \A j \in 1..(i - 1) : ~P(seq[j])
    ELSE 0

Range(seq) == {seq[i] : i \in 1..Len(seq)}

\* for (var clientKey in server._clients): the registered keys, one after
\* another (the model enumerates them in a fixed order).
ClientOrder == <<"a", "b">>
KeysOf(registry) == SelectSeq(ClientOrder, LAMBDA k : k \in DOMAIN registry)

\* -------------------------------------------------------------- messages
\* An outbound message; a field the code does not set is Undefined.
Message(type, clientKey, torrentKey, torrent, serverURL, error) ==
    [type |-> type, clientKey |-> clientKey, torrentKey |-> torrentKey,
     torrent |-> torrent, serverURL |-> serverURL, error |-> error]

Send(S, message) == [S EXCEPT !.sent = Append(@, message)]

\* getInfoMessage(...).torrent and getProgressMessage(...).torrent: the
\* descriptive fields read from the torrent; the metrics are the engine's.
InfoPayload(torrent) == [infohash |-> torrent.infoHash, serverURL |-> torrent.serverURL]
ProgressPayload(torrent) == [progress |-> "metrics"]
SnapshotPayload(torrent) ==
    [infohash |-> torrent.infoHash, serverURL |-> torrent.serverURL,
     progress |-> "metrics"]
ErrorPayload == [message |-> "e.message", stack |-> "e.stack"]

InfoTypes == {"infohash", "metadata"}
ProgressTypes == {"download", "upload", "done"}
ErrorTypes == {"warning", "error"}

\* The message sendInfo, sendProgress or sendError builds for an event.
EventMessage(torrent, type) ==
    IF type \in InfoTypes
    THEN Message(type, Undefined, Undefined, InfoPayload(torrent), Undefined, Undefined)
    ELSE IF type \in ErrorTypes
    THEN Message(type, Undefined, Undefined, Undefined, Undefined, ErrorPayload)
    ELSE Message(type, Undefined, Undefined, ProgressPayload(torrent), Undefined, Undefined)

\* sendToTorrentClients: Object.assign({}, message, client) for each client.
RECURSIVE SendEach(_, _, _)
SendEach(S, message, subscriptions) ==
    IF subscriptions = <<>> THEN S
    ELSE SendEach(
            Send(S, [message EXCEPT !.clientKey = Head(subscriptions).clientKey,
                                    !.torrentKey = Head(subscriptions).torrentKey]),
            message, Tail(subscriptions))

\* Mutant of SendToTorrentClients: the loop stops one client short.
SendToAllButLast(S, torrent, message) ==
    SendEach(S, message, SubSeq(torrent.clients, 1, Len(torrent.clients) - 1))

SendToTorrentClients(S, torrent, message) == SendEach(S, message, torrent.clients)

\* sendToAllClients: Object.assign({}, message, {clientKey}) for each client.
RECURSIVE SendAll(_, _, _)
SendAll(S, message, keys) ==
    IF keys = <<>> THEN S
    ELSE SendAll(Send(S, [message EXCEPT !.clientKey = Head(keys)]), message, Tail(keys))

SendToAllClients(S, message) == SendAll(S, message, KeysOf(S.clients))

\* sendError(server, torrent, e, type)
SendError(S, torrent, type) ==
    IF torrent # Null
    THEN SendToTorrentClients(S, torrent, EventMessage(torrent, type))
    ELSE SendToAllClients(
            S, Message(type, Undefined, Undefined, Undefined, Undefined, ErrorPayload))

\* sendSubscribed: 'torrent-subscribed' with the torrent's snapshot, or null.
SendSubscribed(S, torrent, clientKey, torrentKey) ==
    Send(S, Message("torrent-subscribed", clientKey, torrentKey,
                    IF torrent # Null THEN SnapshotPayload(torrent) ELSE Null,
                    Undefined, Undefined))

\* ---------------------------------------------------------------- engine
\* A torrent object as wt.add returns it, with the fields the server adds.
\* listens counts the calls of torrent.server.listen on this object; waiting
\* lists the create-server requests received since, until 'listening'.
NewTorrent(infoHash) ==
    [infoHash |-> infoHash, clients |-> <<>>, serverURL |-> Undefined,
     pendingServerCallbacks |-> Undefined, destroyed |-> FALSE,
     listens |-> 0, waiting |-> <<>>]

\* server.webtorrent(): the engine, created if there is none.
Webtorrent(S) ==
    IF S.webtorrent = Null
    THEN [S EXCEPT !.webtorrent = [torrents |-> <<>>], !.fx.created = TRUE]
    ELSE S

\* wt.torrents.find(...) by info hash: the index in server._torrents of the
\* torrent object the engine holds, or 0.  wt.torrents holds info hashes, the
\* objects themselves are the elements of server._torrents.
TorrentIndex(S, infoHash) ==
    FindIndex(S.torrents, LAMBDA t : t.infoHash = infoHash)

FindByInfoHash(S, infoHash) ==
    IF S.webtorrent # Null /\ infoHash \in Range(S.webtorrent.torrents)
    THEN TorrentIndex(S, infoHash)
    ELSE 0

\* hasTorrentKey(torrent, torrentKey)
HasTorrentKey(torrent, torrentKey) ==
    \E i \in 1..Len(torrent.clients) : torrent.clients[i].torrentKey = torrentKey

\* torrent.clients.push({clientKey, torrentKey})
Subscription(clientKey, torrentKey) == [clientKey |-> clientKey, torrentKey |-> torrentKey]

\* Mutant of AddClient: a pair the torrent already holds is not pushed again.
AddClientOnce(S, i, clientKey, torrentKey) ==
    IF \E j \in 1..Len(S.torrents[i].clients) :
            S.torrents[i].clients[j] = Subscription(clientKey, torrentKey)
    THEN S
    ELSE [S EXCEPT !.torrents[i].clients = Append(@, Subscription(clientKey, torrentKey))]

AddClient(S, i, clientKey, torrentKey) ==
    [S EXCEPT !.torrents[i].clients = Append(@, Subscription(clientKey, torrentKey))]

\* ------------------------------------------------------------ killClients
\* Mutant of RemainingClients: the subscriptions are not filtered.
RemainingClientsAll(subscriptions, dead) == subscriptions

\* The filter of killClients: the subscriptions of the clients not killed.
RemainingClients(subscriptions, dead) ==
    SelectSeq(subscriptions, LAMBDA c : c.clientKey \notin dead)

\* Mutant of ToDestroy: a torrent with one client left is destroyed too.
ToDestroyOffByOne(torrent) == Len(torrent.clients) <= 1

\* Mutant of ToDestroy: no torrent is destroyed.
ToDestroyNever(torrent) == FALSE

\* The torrents killClients calls torrent.destroy() on.
ToDestroy(torrent) == Len(torrent.clients) = 0

\* Mutant of KeepWebtorrent: the WebTorrent instance is never destroyed.
KeepWebtorrentAlways(S) == TRUE

\* if (server._torrents.length > 0 || !server._webtorrent) return
KeepWebtorrent(S) == Len(S.torrents) > 0 \/ S.webtorrent = Null

KillClients(S, clientKeys) ==
    IF Len(clientKeys) = 0 THEN [S EXCEPT !.fx.kill = TRUE]
    ELSE
    LET dead == Range(clientKeys)
        \* Remove clients
        alive == [k \in DOMAIN S.clients \ dead |-> S.clients[k]]
        \* Remove clients from torrents; a torrent with no clients left is
        \* destroyed (torrent.destroy() sets destroyed and takes it out of
        \* wt.torrents)
        swept == [i \in 1..Len(S.torrents) |->
                    LET t == [S.torrents[i] EXCEPT
                                !.clients = RemainingClients(@, dead)]
                    IN [t EXCEPT !.destroyed = @ \/ ToDestroy(t)]]
        gone == {swept[i].infoHash : i \in {j \in 1..Len(swept) : swept[j].destroyed}}
        \* Remove torrents
        S1 == [S EXCEPT
                !.clients = alive,
                !.torrents = SelectSeq(swept, LAMBDA t : ~t.destroyed),
                !.webtorrent =
                    IF @ = Null THEN @
                    ELSE [@ EXCEPT !.torrents = SelectSeq(@, LAMBDA h : h \notin gone)],
                !.fx.kill = TRUE,
                !.fx.killed = dead,
                !.fx.torrentsDestroyed = gone]
    IN  \* If the last torrent is gone, kill the whole WebTorrent instance
        IF KeepWebtorrent(S1) THEN S1
        ELSE [S1 EXCEPT !.webtorrent = Null, !.fx.destroyed = TRUE]

\* ----------------------------------------------------------- createServer
\* The callbacks createServer is given: respond of handleAddTorrent and the
\* 'server-ready' sender of handleCreateServer, each closed over its keys.
Callback(kind, clientKey, torrentKey) ==
    [kind |-> kind, clientKey |-> clientKey, torrentKey |-> torrentKey]

RunCallback(S, i, cb) ==
    IF cb.kind = "respond"
    THEN SendSubscribed(S, S.torrents[i], cb.clientKey, cb.torrentKey)
    ELSE Send(S, Message("server-ready", cb.clientKey, cb.torrentKey, Undefined,
                         S.torrents[i].serverURL, Undefined))

RECURSIVE RunCallbacks(_, _, _)
RunCallbacks(S, i, cbs) ==
    IF cbs = <<>> THEN S
    ELSE RunCallbacks(RunCallback(S, i, Head(cbs)), i, Tail(cbs))

\* Mutant of CreateServer: without the 'Server pending' branch, a request
\* that finds no serverURL starts a listen of its own.
CreateServerUncoalesced(S, i, callback) ==
    LET torrent == S.torrents[i] IN
    IF torrent.serverURL # Undefined
    THEN RunCallback(S, i, callback)
    ELSE [S EXCEPT !.torrents[i].pendingServerCallbacks = [list |-> <<callback>>],
                   !.torrents[i].listens = @ + 1,
                   !.fx.listen = @ \cup {torrent.infoHash}]

\* Mutant of CreateServer: without the 'Server already exists' branch, a
\* request that finds no pending callbacks starts a listen.
CreateServerNoCache(S, i, callback) ==
    LET torrent == S.torrents[i] IN
    IF torrent.pendingServerCallbacks # Undefined
    THEN [S EXCEPT !.torrents[i].pendingServerCallbacks.list = Append(@, callback)]
    ELSE [S EXCEPT !.torrents[i].pendingServerCallbacks = [list |-> <<callback>>],
                   !.torrents[i].listens = @ + 1,
                   !.fx.listen = @ \cup {torrent.infoHash}]

\* torrent.pendingServerCallbacks is Undefined or [list |-> the callbacks].
CreateServer(S, i, callback) ==
    LET torrent == S.torrents[i] IN
    IF torrent.serverURL # Undefined
    THEN \* Server already exists. Call back right away
         RunCallback(S, i, callback)
    ELSE IF torrent.pendingServerCallbacks # Undefined
    THEN \* Server pending
         [S EXCEPT !.torrents[i].pendingServerCallbacks.list = Append(@, callback)]
    ELSE \* Server does not yet exist. Create it
         [S EXCEPT !.torrents[i].pendingServerCallbacks = [list |-> <<callback>>],
                   !.torrents[i].listens = @ + 1,
                   !.fx.listen = @ \cup {torrent.infoHash}]

\* The callback of torrent.server.listen.
OnListening(S, i, port) ==
    LET S1 == [S EXCEPT !.torrents[i].serverURL = ServerURL(port)]
        S2 == RunCallbacks(S1, i, S.torrents[i].pendingServerCallbacks.list)
    IN [S2 EXCEPT !.torrents[i].pendingServerCallbacks = Undefined,
                  !.torrents[i].waiting = <<>>]

\* --------------------------------------------------------------- handlers
\* receive: the client entry is created when the key is not known.
Touch(S, clientKey) ==
    IF clientKey \in DOMAIN S.clients THEN S
    ELSE [S EXCEPT !.clients =
            [k \in DOMAIN @ \cup {clientKey} |->
                IF k = clientKey THEN [clientKey |-> clientKey, heartbeat |-> now]
                ELSE @[k]]]

Throw(S) == [S EXCEPT !.fx.threw = TRUE]

\* Mutant of HandleSubscribe: the engine is taken from server.webtorrent(),
\* which creates it.
HandleSubscribeCreating(S, message) ==
    LET parsed == ParseTorrent(message.torrentID)
        S0 == Webtorrent(S)
    IN
    IF parsed.threw THEN Throw(S0)
    ELSE
    LET i == FindByInfoHash(S0, parsed.infoHash)
        S1 == IF i # 0 THEN AddClient(S0, i, message.clientKey, message.torrentKey) ELSE S0
    IN  SendSubscribed(S1, IF i # 0 THEN S1.torrents[i] ELSE Null,
                       message.clientKey, message.torrentKey)

HandleSubscribe(S, message) ==
    LET parsed == ParseTorrent(message.torrentID) IN
    IF parsed.threw THEN Throw(S)
    ELSE
    LET i == FindByInfoHash(S, parsed.infoHash)
        \* If so, listen for updates
        S1 == IF i # 0 THEN AddClient(S, i, message.clientKey, message.torrentKey) ELSE S
    IN  \* Either way, respond
        SendSubscribed(S1, IF i # 0 THEN S1.torrents[i] ELSE Null,
                       message.clientKey, message.torrentKey)

\* wt.add(torrentID, options); torrent.clients = []; server._torrents.push
JoinSwarm(S, infoHash) ==
    [S EXCEPT !.webtorrent.torrents = Append(@, infoHash),
              !.torrents = Append(@, NewTorrent(infoHash)),
              !.fx.added = @ \cup {infoHash}]

\* Mutant of HandleAddTorrent: the swarm is joined without looking for it
\* among the torrents of the engine.
HandleAddTorrentAlwaysJoining(S, message) ==
    LET S1 == Webtorrent(S)
        parsed == ParseTorrent(message.torrentID)
    IN
    IF parsed.threw THEN Throw(S1)
    ELSE
    LET S2 == JoinSwarm(S1, parsed.infoHash)
        i == Len(S2.torrents)
        S3 == AddClient(S2, i, message.clientKey, message.torrentKey)
        respond == Callback("respond", message.clientKey, message.torrentKey)
    IN  IF message.options.server THEN CreateServer(S3, i, respond)
        ELSE RunCallback(S3, i, respond)

HandleAddTorrent(S, message) ==
    LET S1 == Webtorrent(S)
        parsed == ParseTorrent(message.torrentID)
    IN
    IF parsed.threw THEN Throw(S1)
    ELSE
    LET found == FindByInfoHash(S1, parsed.infoHash)
        \* If not, join the swarm
        S2 == IF found = 0 THEN JoinSwarm(S1, parsed.infoHash) ELSE S1
        i == TorrentIndex(S2, parsed.infoHash)
        \* Either way, subscribe this client
        S3 == AddClient(S2, i, message.clientKey, message.torrentKey)
        respond == Callback("respond", message.clientKey, message.torrentKey)
    IN  IF message.options.server THEN CreateServer(S3, i, respond)
        ELSE RunCallback(S3, i, respond)

\* getTorrentByKey: the engine is created if needed; the index of the first
\* torrent that has the key, or 0 after a warning to all clients.
GetTorrentByKey(S, torrentKey) ==
    LET S1 == Webtorrent(S)
        i == FindIndex(S1.torrents,
                       LAMBDA t : /\ t.infoHash \in Range(S1.webtorrent.torrents)
                                  /\ HasTorrentKey(t, torrentKey))
    IN [server |-> IF i = 0 THEN SendError(S1, Null, "warning") ELSE S1,
        torrent |-> i]

HandleCreateServer(S, message) ==
    LET r == GetTorrentByKey(S, message.torrentKey)
        i == r.torrent
    IN
    IF i = 0 THEN r.server
    ELSE
    LET asked == Subscription(message.clientKey, message.torrentKey)
        S1 == IF r.server.torrents[i].serverURL = Undefined
              THEN [r.server EXCEPT !.torrents[i].waiting = Append(@, asked)]
              ELSE r.server
    IN CreateServer(S1, i, Callback("server-ready", message.clientKey, message.torrentKey))

HandleHeartbeat(S, message) ==
    IF message.clientKey \notin DOMAIN S.clients THEN S
    ELSE [S EXCEPT !.clients[message.clientKey].heartbeat = now]

\* options && options.delay
Delayed(o) == IF o = Undefined THEN FALSE ELSE o.delay # 0

\* How many subscriptions the torrents hold for the client.
Held(ts, clientKey) ==
    Cardinality({p \in UNION {{<<i, j>> : j \in 1..Len(ts[i].clients)} : i \in 1..Len(ts)} :
                    ts[p[1]].clients[p[2]].clientKey = clientKey})

\* Mutant of HandleDestroy: the delay is ignored, the client is killed now.
HandleDestroyAtOnce(S, message) == KillClients(S, <<message.clientKey>>)

\* handleDestroy: kill now, or setTimeout(kill, options.delay).  The timer is
\* the closure over clientKey; bare notes that the client had no subscription
\* when the timer was set.
HandleDestroy(S, message) ==
    IF Delayed(message.options)
    THEN [S EXCEPT !.timers = @ \cup {[clientKey |-> message.clientKey,
                                       due |-> now + message.options.delay,
                                       bare |-> Held(S.torrents, message.clientKey) = 0]}]
    ELSE KillClients(S, <<message.clientKey>>)

Receive(S, message) ==
    LET S1 == Touch(S, message.clientKey) IN
    CASE message.type = "subscribe" -> HandleSubscribe(S1, message)
      [] message.type = "add-torrent" -> HandleAddTorrent(S1, message)
      [] message.type = "create-server" -> HandleCreateServer(S1, message)
      [] message.type = "heartbeat" -> HandleHeartbeat(S1, message)
      [] message.type = "destroy" -> HandleDestroy(S1, message)
      [] OTHER -> S1

\* ------------------------------------------------------------ sendUpdates
\* Mutant of IsDead: a client lives one time unit longer.
IsDeadLate(client, timeout) == now - client.heartbeat > timeout + 1

\* Mutant of IsDead: a client whose age is exactly the timeout is dead.
IsDeadAtTimeout(client, timeout) == now - client.heartbeat >= timeout

\* removeDeadClients: the clients whose heartbeat is older than the timeout.
IsDead(client, timeout) == now - client.heartbeat > timeout

RemoveDeadClients(S, timeout) ==
    KillClients(S, SelectSeq(KeysOf(S.clients), LAMBDA k : IsDead(S.clients[k], timeout)))

RECURSIVE SendUpdateEach(_, _)
SendUpdateEach(S, ts) ==
    IF ts = <<>> THEN S
    ELSE SendUpdateEach(
            SendToTorrentClients(S, Head(ts), EventMessage(Head(ts), "update")),
            Tail(ts))

DefaultHeartbeatTimeout == 30000

\* Mutant of SendUpdates: the updates go to the subscriptions held before
\* the dead clients are removed.
SendUpdatesStale(S) ==
    LET timeout == IF "heartbeatTimeout" \in DOMAIN options
                   THEN options.heartbeatTimeout ELSE DefaultHeartbeatTimeout
        S1 == IF timeout > 0 THEN RemoveDeadClients(S, timeout) ELSE S
    IN SendUpdateEach(S1, S.torrents)

SendUpdates(S) ==
    LET timeout == IF "heartbeatTimeout" \in DOMAIN options
                   THEN options.heartbeatTimeout ELSE DefaultHeartbeatTimeout
        S1 == IF timeout > 0 THEN RemoveDeadClients(S, timeout) ELSE S
    IN SendUpdateEach(S1, S1.torrents)

\* ---------------------------------------------------------------- actions
\* The record of a handler run: which handler, its input, its engine calls.
Last(op, clientKey, torrentKey, infoHash, type, flag, fx) ==
    [op |-> op, clientKey |-> clientKey, torrentKey |-> torrentKey,
     infoHash |-> infoHash, type |-> type, flag |-> flag, fx |-> fx]

InfoHashOf(torrentID) ==
    IF ParseTorrent(torrentID).threw THEN "-" ELSE ParseTorrent(torrentID).infoHash

RECURSIVE Sum(_)
Sum(seq) == IF seq = <<>> THEN 0 ELSE Head(seq) + Sum(Tail(seq))

PendingOf(torrent) ==
    IF torrent.pendingServerCallbacks = Undefined THEN <<>>
    ELSE torrent.pendingServerCallbacks.list

\* The lists stay within the bounds of the model.
Bounded(S) ==
    /\ Sum([i \in 1..Len(S.torrents) |-> Len(S.torrents[i].clients)])
            <= scenario.maxSubscriptions
    /\ Sum([i \in 1..Len(S.torrents) |-> Len(PendingOf(S.torrents[i]))])
            <= scenario.maxPending

Idle == Last("idle", "-", "-", "-", "-", FALSE, NoFx)

\* A handler runs when the messages of the one before it have left: it runs
\* to its end, and what it sent and did is on record until Deliver.
Commit(S, op, clientKey, torrentKey, infoHash, type, flag) ==
    /\ last = Idle
    /\ Bounded(S)
    /\ webtorrent' = S.webtorrent
    /\ clients' = S.clients
    /\ torrents' = S.torrents
    /\ timers' = S.timers
    /\ sent' = S.sent
    /\ last' = Last(op, clientKey, torrentKey, infoHash, type, flag, S.fx)
    /\ UNCHANGED <<now, options, scenario>>

\* The options of a server with heartbeatTimeout configured, and of a server
\* constructed without any (options.trace is read and is falsy).
Configured(timeouts) == {[heartbeatTimeout |-> t] : t \in timeouts}
NoOptions == [trace |-> FALSE]

\* A run exercises one of: expiry over two swarms while the clock advances;
\* delayed destroys on one swarm while the clock advances; the provisioning
\* of a server on one swarm with the clock at rest; one swarm with expiry
\* disabled (heartbeatTimeout 0 or negative) while the clock advances; one
\* swarm with no heartbeatTimeout configured, while the clock passes the
\* default timeout.  clock lists the times the run observes, maxTime is the
\* last of them; quiet names the clients that stop sending, see MaySend.  The
\* runs with delayed destroys and with provisioning hold two subscriptions at
\* most, whatever MaxSubscriptions is.
Scenarios ==
    {[maxTime |-> MaxTime, clock |-> 0..MaxTime,
      maxPending |-> 0, infoHashes |-> InfoHashes, delays |-> {0},
      maxSubscriptions |-> MaxSubscriptions,
      options |-> Configured(Timeouts), quiet |-> {}],
     [maxTime |-> MaxTime, clock |-> 0..MaxTime,
      maxPending |-> 0, infoHashes |-> {"X"}, delays |-> Delays,
      maxSubscriptions |-> 2,
      options |-> Configured(Timeouts), quiet |-> {}],
     [maxTime |-> 0, clock |-> {0},
      maxPending |-> MaxPending, infoHashes |-> {"X"}, delays |-> {0},
      maxSubscriptions |-> 2,
      options |-> Configured(Timeouts), quiet |-> {}],
     [maxTime |-> MaxTime, clock |-> 0..MaxTime,
      maxPending |-> 0, infoHashes |-> {"X"}, delays |-> {0},
      maxSubscriptions |-> MaxSubscriptions,
      options |-> Configured({0, -1}), quiet |-> {}],
     [maxTime |-> DefaultHeartbeatTimeout + 1, maxPending |-> 0, infoHashes |-> {"X"},
      delays |-> {0}, maxSubscriptions |-> MaxSubscriptions,
      options |-> {NoOptions}, quiet |-> {},
      clock |-> {0, 1, DefaultHeartbeatTimeout, DefaultHeartbeatTimeout + 1}]}

\* The runs in which clients fall silent: both of them, on one swarm; both
\* of them, with a single subscription and the provisioning of a server, or
\* with a single subscription and a delayed destroy; or "a" alone, while "b"
\* goes on sending.
LiveScenarios ==
    {[maxTime |-> MaxTime, clock |-> 0..MaxTime,
      maxPending |-> 0, infoHashes |-> {"X"}, delays |-> {0},
      maxSubscriptions |-> MaxSubscriptions,
      options |-> Configured(Timeouts), quiet |-> ClientKeys],
     [maxTime |-> MaxTime, clock |-> 0..MaxTime,
      maxPending |-> 1, infoHashes |-> {"X"}, delays |-> {0},
      maxSubscriptions |-> 1,
      options |-> Configured(Timeouts), quiet |-> ClientKeys],
     [maxTime |-> MaxTime, clock |-> 0..MaxTime,
      maxPending |-> 0, infoHashes |-> {"X"}, delays |-> Delays,
      maxSubscriptions |-> 1,
      options |-> Configured(Timeouts), quiet |-> ClientKeys],
     [maxTime |-> MaxTime, clock |-> 0..MaxTime,
      maxPending |-> 0, infoHashes |-> {"X"}, delays |-> {0},
      maxSubscriptions |-> MaxSubscriptions,
      options |-> Configured(Timeouts), quiet |-> {"a"}]}

\* A client that falls silent sends nothing once its last heartbeat is bound
\* to be older than the timeout when the clock reaches its end.
MaySend(clientKey) ==
    clientKey \in scenario.quiet => now + options.heartbeatTimeout < scenario.maxTime

\* The torrent identifiers of the run.
IDs == {id \in TorrentIDs : ParseTorrent(id).threw \/ id.infoHash \in scenario.infoHashes}

Init ==
    /\ scenario \in Scenarios
    /\ webtorrent = Null
    /\ clients = [k \in {} |-> Null]
    /\ torrents = <<>>
    /\ timers = {}
    /\ now = 0
    /\ options \in scenario.options
    /\ sent = <<>>
    /\ last = Idle

LiveInit ==
    /\ scenario \in LiveScenarios
    /\ webtorrent = Null
    /\ clients = [k \in {} |-> Null]
    /\ torrents = <<>>
    /\ timers = {}
    /\ now = 0
    /\ options \in scenario.options
    /\ sent = <<>>
    /\ last = Idle

Subscribe ==
    \E c \in ClientKeys : \E k \in KeysUsedBy(c), id \in IDs :
        MaySend(c) /\
        Commit(Receive(Server, [type |-> "subscribe", clientKey |-> c,
                                torrentKey |-> k, torrentID |-> id]),
               "subscribe", c, k, InfoHashOf(id), "-", FALSE)

AddTorrent ==
    \E c \in ClientKeys : \E k \in KeysUsedBy(c), id \in IDs, server \in BOOLEAN :
        MaySend(c) /\
        Commit(Receive(Server, [type |-> "add-torrent", clientKey |-> c,
                                torrentKey |-> k, torrentID |-> id,
                                options |-> [server |-> server]]),
               "add-torrent", c, k, InfoHashOf(id), "-", server)

CreateServerRequest ==
    \E c \in ClientKeys : \E k \in KeysUsedBy(c) :
        MaySend(c) /\
        Commit(Receive(Server, [type |-> "create-server", clientKey |-> c,
                                torrentKey |-> k]),
               "create-server", c, k, "-", "-", FALSE)

Heartbeat ==
    \E c \in ClientKeys :
        MaySend(c) /\
        Commit(Receive(Server, [type |-> "heartbeat", clientKey |-> c]),
               "heartbeat", c, "-", "-", "-", FALSE)

\* A delayed destroy is taken while no kill timer is pending and the timer
\* falls due within the clock's range.
Destroy ==
    \E c \in ClientKeys, o \in {Undefined} \cup [delay : scenario.delays] :
        /\ MaySend(c)
        /\ IF Delayed(o)
           THEN now + o.delay <= scenario.maxTime /\ timers = {}
           ELSE TRUE
        /\ Commit(Receive(Server, [type |-> "destroy", clientKey |-> c, options |-> o]),
                  "destroy", c, "-", "-", "-", Delayed(o))

UnknownMessage ==
    \E c \in ClientKeys :
        MaySend(c) /\
        Commit(Receive(Server, [type |-> "ping", clientKey |-> c]),
               "unknown", c, "-", "-", "-", FALSE)

\* setInterval(sendUpdates, updateInterval)
Tick == Commit(SendUpdates(Server), "tick", "-", "-", "-", "-", FALSE)

\* setTimeout(kill, options.delay) of handleDestroy falls due.  The record
\* of the run notes whether the client, bare when the timer was set, has
\* subscribed since.
TimerFire ==
    \E t \in timers :
        /\ now >= t.due
        /\ Commit(KillClients([Server EXCEPT !.timers = @ \ {t}], <<t.clientKey>>),
                  "timer", t.clientKey, "-", "-",
                  IF t.bare /\ Held(torrents, t.clientKey) > 0 THEN "grown" ELSE "-", TRUE)

\* The 'listening' event of a torrent's server: listen's callback runs.
Listening ==
    \E i \in 1..Len(torrents), port \in Ports :
        /\ torrents[i].pendingServerCallbacks # Undefined
        /\ Commit(OnListening(Server, i, port),
                  "listening", "-", "-", torrents[i].infoHash, "-", FALSE)

\* addTorrentEvents: an event of a joined torrent.
TorrentEvent ==
    \E i \in 1..Len(torrents), type \in InfoTypes \cup ProgressTypes \cup ErrorTypes :
        Commit(SendToTorrentClients(Server, torrents[i], EventMessage(torrents[i], type)),
               "event", "-", "-", torrents[i].infoHash, type, FALSE)

\* addWebTorrentEvents: a warning or an error of the WebTorrent instance.
WebTorrentEvent ==
    \E type \in ErrorTypes :
        /\ webtorrent # Null
        /\ Commit(SendError(Server, Null, type), "wt-event", "-", "-", "-", type, FALSE)

\* Time passes: the clock shows the next of the times the run observes.
Advance ==
    /\ last = Idle
    /\ \E t \in scenario.clock :
        /\ t > now
        /\ \A u \in scenario.clock : u > now => t <= u
        /\ now' = t
    /\ UNCHANGED <<webtorrent, clients, torrents, timers, options, sent, last, scenario>>

\* The messages handed to send leave the server; the next handler may run.
Deliver ==
    /\ last # Idle
    /\ sent' = <<>>
    /\ last' = Idle
    /\ UNCHANGED <<webtorrent, clients, torrents, timers, now, options, scenario>>

Next ==
    \/ Subscribe
    \/ AddTorrent
    \/ CreateServerRequest
    \/ Heartbeat
    \/ Destroy
    \/ UnknownMessage
    \/ Tick
    \/ TimerFire
    \/ Listening
    \/ TorrentEvent
    \/ WebTorrentEvent
    \/ Advance
    \/ Deliver

Spec == Init /\ [][Next]_vars

\* A handler that has run hands over to the next; the interval of
\* sendUpdates goes on firing and the clock goes on advancing, however many
\* other handlers run in between (both wait here for the handler that runs
\* to end, hence strong fairness).
LiveSpec ==
    LiveInit /\ [][Next]_vars /\ WF_vars(Deliver) /\ SF_vars(Tick) /\ SF_vars(Advance)

\* ----------------------------------------------------------------- claims
Hashes(ts) == {ts[i].infoHash : i \in 1..Len(ts)}

\* How many entries of a list of subscriptions or messages bear the pair.
PairCount(seq, c, k) ==
    Cardinality({j \in 1..Len(seq) : seq[j].clientKey = c /\ seq[j].torrentKey = k})

ServerReady(messages) == SelectSeq(messages, LAMBDA m : m.type = "server-ready")

MessageOps == {"subscribe", "add-torrent", "create-server", "heartbeat", "unknown"}

\* C1: when killClients has run for a non-empty set K of client keys (from a
\* tick's expiry, a destroy message or its timer), no client of K is
\* registered, no torrent holds a subscription of a client of K, every torrent
\* left without subscription was destroyed and removed, every torrent that
\* keeps a subscription is kept, undestroyed, with exactly its other
\* subscriptions, and the engine was destroyed only if no torrent is left.
C1_CascadingTeardown ==
    [][(last'.fx.kill /\ last'.fx.killed # {}) =>
        LET K == last'.fx.killed IN
        /\ K \cap DOMAIN clients' = {}
        /\ \A i \in 1..Len(torrents') : \A j \in 1..Len(torrents'[i].clients) :
                torrents'[i].clients[j].clientKey \notin K
        /\ \A i \in 1..Len(torrents) :
            LET t == torrents[i]
                rest == SelectSeq(t.clients, LAMBDA c : c.clientKey \notin K)
            IN IF rest = <<>>
               THEN /\ t.infoHash \in last'.fx.torrentsDestroyed
                    /\ t.infoHash \notin Hashes(torrents')
               ELSE /\ t.infoHash \notin last'.fx.torrentsDestroyed
                    /\ \E n \in 1..Len(torrents') :
                        /\ torrents'[n].infoHash = t.infoHash
                        /\ torrents'[n].clients = rest
                        /\ ~torrents'[n].destroyed
        /\ last'.fx.destroyed => (torrents' = <<>> /\ webtorrent' = Null)
    ]_vars

\* A kill destroyed one torrent and kept another.
C1_Witness ==
    /\ last.fx.kill
    /\ last.fx.killed # {}
    /\ last.fx.torrentsDestroyed # {}
    /\ torrents # <<>>
    /\ ~last.fx.destroyed

\* C2: between handlers the engine is active exactly when a torrent is
\* registered.
C2_EngineActiveIffSwarms == (webtorrent # Null) <=> (torrents # <<>>)

\* C3: listen is called once per torrent, and when it completes, the
\* 'server-ready' messages sent are exactly one per create-server request
\* received for the torrent until then, in order, each to the request's
\* (clientKey, torrentKey), all with the torrent's one serverURL.
C3_CoalescedProvisioning ==
    [][/\ \A i \in 1..Len(torrents') : torrents'[i].listens <= 1
       /\ last'.op = "listening" =>
            LET t == torrents[FindIndex(torrents, LAMBDA x : x.infoHash = last'.infoHash)]
                u == torrents'[FindIndex(torrents', LAMBDA x : x.infoHash = last'.infoHash)]
            IN /\ t.listens = 1
               /\ u.serverURL # Undefined
               /\ ServerReady(sent') =
                    [j \in 1..Len(t.waiting) |->
                        Message("server-ready", t.waiting[j].clientKey,
                                t.waiting[j].torrentKey, Undefined, u.serverURL, Undefined)]
    ]_vars

\* A listen completed that two create-server requests were waiting for.
C3_Witness == last.op = "listening" /\ Len(ServerReady(sent)) >= 2

\* C4: no two registered torrents have the same info hash, and an add-torrent
\* for the info hash of a registered torrent calls no wt.add and appends its
\* (clientKey, torrentKey) to that torrent's subscriptions.
C4_OneSwarmPerInfoHash ==
    [][/\ \A i, j \in 1..Len(torrents') :
            torrents'[i].infoHash = torrents'[j].infoHash => i = j
       /\ (last'.op = "add-torrent" /\ last'.infoHash \in Hashes(torrents)) =>
            /\ last'.fx.added = {}
            /\ Len(torrents') = Len(torrents)
            /\ \A i \in 1..Len(torrents) :
                torrents[i].infoHash = last'.infoHash =>
                    /\ torrents'[i].infoHash = last'.infoHash
                    /\ torrents'[i].clients =
                        Append(torrents[i].clients,
                               Subscription(last'.clientKey, last'.torrentKey))
    ]_vars

\* One client holds two subscriptions, under two keys, on a single torrent,
\* the second added without a join.
C4_Witness ==
    /\ last.op = "add-torrent"
    /\ last.fx.added = {}
    /\ \E i \in 1..Len(torrents) :
        /\ torrents[i].infoHash = last.infoHash
        /\ PairCount(torrents[i].clients, "a", "k1") = 1
        /\ PairCount(torrents[i].clients, "a", "k2") = 1

\* C5: an event of a torrent sends, for each pair, as many messages of the
\* event's type as the torrent holds subscriptions of the pair, and nothing
\* else; a tick sends, for each pair, as many 'update' messages as the
\* registered torrents hold subscriptions of the pair, and nothing else.
C5_FanOut ==
    /\ last.op = "event" =>
        LET t == torrents[FindIndex(torrents, LAMBDA x : x.infoHash = last.infoHash)] IN
        /\ Len(sent) = Len(t.clients)
        /\ \A j \in 1..Len(sent) : sent[j].type = last.type
        /\ \A c \in ClientKeys, k \in TorrentKeys :
            PairCount(sent, c, k) = PairCount(t.clients, c, k)
    /\ last.op = "tick" =>
        /\ \A j \in 1..Len(sent) : sent[j].type = "update"
        /\ \A c \in ClientKeys, k \in TorrentKeys :
            PairCount(sent, c, k) =
                Sum([i \in 1..Len(torrents) |-> PairCount(torrents[i].clients, c, k)])

\* An event of a torrent with two subscribers, of two clients.
C5_Witness ==
    /\ last.op = "event"
    /\ Len(sent) = 2
    /\ sent[1].clientKey # sent[2].clientKey

\* C6: a subscribe leaves the engine and the set of registered torrents as
\* they were; for an identifier that parses to an info hash no registered
\* torrent has, it adds no subscription and sends exactly one
\* 'torrent-subscribed' with torrent = null to the requester's pair.
C6_SubscribeReadOnly ==
    [][last'.op = "subscribe" =>
        /\ webtorrent' = webtorrent
        /\ Len(torrents') = Len(torrents)
        /\ \A i \in 1..Len(torrents) : torrents'[i].infoHash = torrents[i].infoHash
        /\ (last'.infoHash # "-" /\ last'.infoHash \notin Hashes(torrents)) =>
            /\ torrents' = torrents
            /\ sent' = <<Message("torrent-subscribed", last'.clientKey,
                                 last'.torrentKey, Null, Undefined, Undefined)>>
    ]_vars

\* A subscribe for a torrent not joined, handled while there is no engine.
C6_Witness ==
    /\ last.op = "subscribe"
    /\ last.infoHash # "-"
    /\ webtorrent = Null
    /\ Len(sent) = 1
    /\ sent[1].torrent = Null

\* C7: after any message other than destroy, the sender's heartbeat is the
\* current time.
C7_EveryMessageRefreshes ==
    last.op \in MessageOps =>
        /\ last.clientKey \in DOMAIN clients
        /\ clients[last.clientKey].heartbeat = now

\* C8: a create-server whose torrentKey no subscription of any torrent bears
\* changes neither the engine nor the torrents, starts no listen and sends no
\* 'server-ready'.
C8_UnknownKeyNoMutation ==
    [][(/\ last'.op = "create-server"
        /\ \A i \in 1..Len(torrents) : ~HasTorrentKey(torrents[i], last'.torrentKey)) =>
        /\ webtorrent' = webtorrent
        /\ torrents' = torrents
        /\ last'.fx.listen = {}
        /\ ServerReady(sent') = <<>>
    ]_vars

\* C9: when a listen completes, every message sent goes to a client that is
\* registered (none to a client removed while the listen was pending).
C9_NoResponseToRemovedClient ==
    last.op = "listening" =>
        \A j \in 1..Len(sent) : sent[j].clientKey \in DOMAIN clients

\* C10: a create-server ends without an exception, and every message it
\* sends is addressed to the requesting client.
C10_DiagnosticToRequesterOnly ==
    last.op = "create-server" =>
        /\ ~last.fx.threw
        /\ \A j \in 1..Len(sent) : sent[j].clientKey = last.clientKey

\* The subscriptions of the torrent with the info hash, none if not registered.
ClientsOf(ts, infoHash) ==
    IF infoHash \in Hashes(ts)
    THEN ts[FindIndex(ts, LAMBDA x : x.infoHash = infoHash)].clients
    ELSE <<>>

\* C11: an add-torrent with options.server that ends without an exception has
\* recorded the subscription (clientKey, torrentKey) on the torrent of its
\* info hash and has sent, in the same handler run and whether or not the
\* listen has completed, the 'torrent-subscribed' with the torrent's snapshot
\* to the requester's pair.
C11_ResponseWithoutWaiting ==
    (last.op = "add-torrent" /\ last.flag /\ ~last.fx.threw) =>
        /\ PairCount(ClientsOf(torrents, last.infoHash),
                     last.clientKey, last.torrentKey) >= 1
        /\ \E j \in 1..Len(sent) :
            /\ sent[j].type = "torrent-subscribed"
            /\ sent[j].clientKey = last.clientKey
            /\ sent[j].torrentKey = last.torrentKey
            /\ sent[j].torrent # Null

\* C12: a subscribe whose torrentID is absent or does not parse ends without
\* an exception, sends exactly one 'torrent-subscribed' with torrent = null
\* to the requester's pair, and does not create the engine.
C12_MalformedSubscribeNullResponse ==
    (last.op = "subscribe" /\ last.infoHash = "-") =>
        /\ ~last.fx.threw
        /\ ~last.fx.created
        /\ sent = <<Message("torrent-subscribed", last.clientKey, last.torrentKey,
                            Null, Undefined, Undefined)>>

\* C13: an add-torrent that ends without an exception leaves the torrent of
\* its info hash registered with its former subscriptions (none, if it was
\* joined by this message) followed by the message's (clientKey, torrentKey),
\* and every other torrent registered with its subscriptions as they were.
C13_AddsExactlyOneSubscription ==
    [][(last'.op = "add-torrent" /\ ~last'.fx.threw) =>
        /\ Hashes(torrents') = Hashes(torrents) \cup {last'.infoHash}
        /\ \A n \in 1..Len(torrents') :
            torrents'[n].clients =
                IF torrents'[n].infoHash = last'.infoHash
                THEN Append(ClientsOf(torrents, last'.infoHash),
                            Subscription(last'.clientKey, last'.torrentKey))
                ELSE ClientsOf(torrents, torrents'[n].infoHash)
    ]_vars

\* An add-torrent joined a swarm for its client while another torrent, with
\* a subscriber of its own, is registered.
C13_Witness ==
    /\ last.op = "add-torrent"
    /\ ~last.fx.threw
    /\ last.fx.added = {last.infoHash}
    /\ Len(torrents) = 2
    /\ ClientsOf(torrents, last.infoHash) =
            <<Subscription(last.clientKey, last.torrentKey)>>
    /\ \A n \in 1..Len(torrents) : torrents[n].clients # <<>>

\* The 'update' messages owed to the subscriptions of the torrents, torrent by
\* torrent and subscription by subscription.
RECURSIVE UpdatesOwed(_)
UpdatesOwed(ts) ==
    IF ts = <<>> THEN <<>>
    ELSE [j \in 1..Len(Head(ts).clients) |->
            Message("update", Head(ts).clients[j].clientKey,
                    Head(ts).clients[j].torrentKey,
                    [progress |-> "metrics"], Undefined, Undefined)]
         \o UpdatesOwed(Tail(ts))

\* C14: a tick, with expiry enabled or disabled and whether or not a client
\* expired, sends exactly one 'update' per subscription of each torrent that
\* is registered when it ends, and nothing to a client it removed.
C14_UpdateOnEveryTick ==
    last.op = "tick" =>
        /\ sent = UpdatesOwed(torrents)
        /\ \A j \in 1..Len(sent) :
            /\ sent[j].clientKey \notin last.fx.killed
            /\ sent[j].clientKey \in DOMAIN clients

\* A tick removed a client, destroyed its torrent, and sent the update of
\* the torrent that remains.
C14_Witness ==
    /\ last.op = "tick"
    /\ last.fx.killed # {}
    /\ last.fx.torrentsDestroyed # {}
    /\ sent # <<>>

\* C15: when a destroy without delay has been handled, its sender is not
\* registered, the other clients' entries are as they were, the registered
\* torrents are those that keep a subscription of another client, each as it
\* was but for the sender's subscriptions, the others were destroyed, and the
\* engine is gone if no torrent is left and is untouched otherwise.
C15_ExplicitDestroy ==
    [][(last'.op = "destroy" /\ ~last'.flag) =>
        LET c == last'.clientKey
            Rest(t) == SelectSeq(t.clients, LAMBDA x : x.clientKey # c)
            kept == SelectSeq(torrents, LAMBDA t : Rest(t) # <<>>)
        IN /\ DOMAIN clients' = DOMAIN clients \ {c}
           /\ \A k \in DOMAIN clients' : clients'[k] = clients[k]
           /\ torrents' = [n \in 1..Len(kept) |-> [kept[n] EXCEPT !.clients = Rest(kept[n])]]
           /\ last'.fx.torrentsDestroyed = Hashes(torrents) \ Hashes(kept)
           /\ IF torrents' = <<>>
              THEN webtorrent' = Null
              ELSE /\ ~last'.fx.destroyed
                   /\ webtorrent' # Null
                   /\ Range(webtorrent'.torrents) = Hashes(torrents')
    ]_vars

\* A destroy took the sender's torrent and the engine with it, while another
\* client stays registered.
C15_Witness ==
    /\ last.op = "destroy"
    /\ ~last.flag
    /\ last.fx.torrentsDestroyed # {}
    /\ last.fx.destroyed
    /\ DOMAIN clients # {}

\* C16: with a positive timeout, the clock advancing and the ticks recurring,
\* from some point on no client that fell silent is registered or holds a
\* subscription, and if all clients fell silent, no client and no torrent is
\* registered and there is no engine.
C16_EventualReclamation ==
    <>[](/\ \A c \in scenario.quiet :
            /\ c \notin DOMAIN clients
            /\ \A i \in 1..Len(torrents) : \A j \in 1..Len(torrents[i].clients) :
                    torrents[i].clients[j].clientKey # c
         /\ scenario.quiet = ClientKeys =>
            /\ DOMAIN clients = {}
            /\ torrents = <<>>
            /\ webtorrent = Null)

\* A tick expired the silent clients, both holding subscriptions, and the
\* last torrent and the engine went with them.
C16_Witness ==
    /\ scenario.quiet = ClientKeys
    /\ last.op = "tick"
    /\ last.fx.killed = ClientKeys
    /\ last.fx.torrentsDestroyed # {}
    /\ last.fx.destroyed
    /\ webtorrent = Null

\* The provisioning state of a torrent: 0 none, 1 pending, 2 ready.
Provisioning(t) ==
    IF t.serverURL # Undefined THEN 2
    ELSE IF t.pendingServerCallbacks # Undefined THEN 1
    ELSE 0

\* C17: in every step, a torrent object has had listen called at most once;
\* a torrent that stays registered keeps its provisioning state or moves one
\* state forward (none, pending, ready), with listen called exactly when it
\* leaves none, and keeps its serverURL once it has one; a create-server that
\* resolves to a ready torrent, and an add-torrent with options.server for a
\* ready torrent, are answered in the same step with the cached URL, without
\* a listen and without a change of the provisioning state.
C17_ProvisioningAtMostOnce ==
    [][/\ \A n \in 1..Len(torrents') : torrents'[n].listens <= 1
       /\ \A i \in 1..Len(torrents), n \in 1..Len(torrents') :
            torrents'[n].infoHash = torrents[i].infoHash =>
                /\ Provisioning(torrents'[n]) - Provisioning(torrents[i]) \in {0, 1}
                /\ torrents'[n].listens - torrents[i].listens =
                        IF Provisioning(torrents[i]) = 0 /\ Provisioning(torrents'[n]) = 1
                        THEN 1 ELSE 0
                /\ torrents[i].serverURL # Undefined =>
                        torrents'[n].serverURL = torrents[i].serverURL
       /\ last'.op = "create-server" =>
            LET i == FindIndex(torrents, LAMBDA t : HasTorrentKey(t, last'.torrentKey)) IN
            (i # 0 /\ Provisioning(torrents[i]) = 2) =>
                /\ last'.fx.listen = {}
                /\ torrents' = torrents
                /\ sent' = <<Message("server-ready", last'.clientKey, last'.torrentKey,
                                     Undefined, torrents[i].serverURL, Undefined)>>
       /\ (last'.op = "add-torrent" /\ last'.flag /\ last'.infoHash \in Hashes(torrents)) =>
            LET t == torrents[FindIndex(torrents, LAMBDA x : x.infoHash = last'.infoHash)] IN
            Provisioning(t) = 2 =>
                /\ last'.fx.listen = {}
                /\ Len(sent') = 1
                /\ sent'[1].type = "torrent-subscribed"
                /\ sent'[1].torrent # Null
                /\ sent'[1].torrent.serverURL = t.serverURL
    ]_vars

\* A create-server for a torrent whose server is listening was answered at
\* once with the URL, without a listen.
C17_Witness ==
    /\ last.op = "create-server"
    /\ last.fx.listen = {}
    /\ Len(sent) = 1
    /\ sent[1].type = "server-ready"
    /\ \E i \in 1..Len(torrents) :
        /\ torrents[i].listens = 1
        /\ torrents[i].serverURL = sent[1].serverURL

\* C18: every registered torrent holds at least one subscription and is not
\* destroyed: it is among the torrents of the engine.
C18_NoSubscriberlessSwarm ==
    \A i \in 1..Len(torrents) :
        /\ torrents[i].clients # <<>>
        /\ ~torrents[i].destroyed
        /\ webtorrent # Null
        /\ torrents[i].infoHash \in Range(webtorrent.torrents)

\* A destroy removed one of two subscribers of a torrent, which stays.
C18_Witness ==
    /\ last.op = "destroy"
    /\ last.fx.killed # {}
    /\ last.fx.torrentsDestroyed = {}
    /\ Len(torrents) = 1
    /\ Len(torrents[1].clients) = 1

\* C19: the clientKey of every subscription of every registered torrent is
\* registered in server._clients.
C19_NoOrphanSubscriptions ==
    \A i \in 1..Len(torrents) : \A j \in 1..Len(torrents[i].clients) :
        torrents[i].clients[j].clientKey \in DOMAIN clients

\* The kill timer of a delayed destroy removed a client that held a
\* subscription on a torrent another client is subscribed to.
C19_Witness ==
    /\ last.op = "timer"
    /\ last.clientKey \notin DOMAIN clients
    /\ Len(torrents) = 1
    /\ torrents[1].clients # <<>>
    /\ DOMAIN clients # {}

\* C20: a create-server of client C with torrentKey K starts a listen only
\* on a torrent that holds the subscription (C, K), and reports the
\* serverURL only of a torrent that holds the subscription (C, K).
C20_KeysScopedToClient ==
    last.op = "create-server" =>
        /\ \A h \in last.fx.listen :
            PairCount(ClientsOf(torrents, h), last.clientKey, last.torrentKey) >= 1
        /\ \A j \in 1..Len(sent) :
            sent[j].type = "server-ready" =>
                \E i \in 1..Len(torrents) :
                    /\ torrents[i].serverURL = sent[j].serverURL
                    /\ PairCount(torrents[i].clients,
                                 last.clientKey, last.torrentKey) >= 1

\* C21: a destroy with a delay changes no torrent, no other client's entry
\* and not the engine, and sets a timer due later; a timer set stays set
\* until it fires (nothing cancels it); when it fires, at or after its due
\* time, the client is not registered, the other clients' entries are as
\* they were, the registered torrents are those that at that moment keep a
\* subscription of another client, each as it was but for the client's
\* subscriptions (those added since the destroy message included), the
\* others were destroyed, and the engine is gone if no torrent is left.
C21_DelayedDestroy ==
    [][/\ (last'.op = "destroy" /\ last'.flag) =>
            /\ torrents' = torrents
            /\ webtorrent' = webtorrent
            /\ ~last'.fx.kill
            /\ DOMAIN clients' = DOMAIN clients \cup {last'.clientKey}
            /\ \A k \in DOMAIN clients : clients'[k] = clients[k]
            /\ \E t \in timers' \ timers : t.clientKey = last'.clientKey /\ t.due > now
       /\ \A t \in timers :
            t \in timers' \/ (last'.op = "timer" /\ last'.clientKey = t.clientKey)
       /\ last'.op = "timer" =>
            LET c == last'.clientKey
                Rest(t) == SelectSeq(t.clients, LAMBDA x : x.clientKey # c)
                kept == SelectSeq(torrents, LAMBDA t : Rest(t) # <<>>)
            IN /\ \E t \in timers \ timers' : t.clientKey = c /\ now >= t.due
               /\ DOMAIN clients' = DOMAIN clients \ {c}
               /\ \A k \in DOMAIN clients' : clients'[k] = clients[k]
               /\ torrents' =
                    [n \in 1..Len(kept) |-> [kept[n] EXCEPT !.clients = Rest(kept[n])]]
               /\ last'.fx.torrentsDestroyed = Hashes(torrents) \ Hashes(kept)
               /\ IF torrents' = <<>> THEN webtorrent' = Null
                  ELSE webtorrent' # Null /\ ~last'.fx.destroyed
    ]_vars

\* The timer of a delayed destroy fired for a client that had subscribed
\* after its destroy message: the subscription, its torrent and the engine
\* went.
C21_Witness ==
    /\ last.op = "timer"
    /\ last.type = "grown"
    /\ last.clientKey \notin DOMAIN clients
    /\ last.fx.torrentsDestroyed # {}
    /\ last.fx.destroyed

\* C22: at a tick, with T the configured heartbeatTimeout, or 30000 when none
\* is configured: if T > 0 the clients removed are exactly those whose
\* heartbeat is more than T old (a client of age exactly T stays); if T <= 0
\* no client, no torrent and not the engine is removed.
C22_ExpiryRule ==
    [][last'.op = "tick" =>
        LET T == IF "heartbeatTimeout" \in DOMAIN options
                 THEN options.heartbeatTimeout ELSE 30000
            expired == {k \in DOMAIN clients : now - clients[k].heartbeat > T}
        IN IF T > 0
           THEN /\ DOMAIN clients' = DOMAIN clients \ expired
                /\ \A k \in DOMAIN clients' : clients'[k] = clients[k]
                /\ last'.fx.killed = expired
           ELSE /\ clients' = clients
                /\ torrents' = torrents
                /\ webtorrent' = webtorrent
                /\ last'.fx.killed = {}
    ]_vars

\* With no heartbeatTimeout configured, a tick removed a client whose
\* heartbeat was 30001 old and kept one whose heartbeat is 30000 old.
C22_Witness ==
    /\ "heartbeatTimeout" \notin DOMAIN options
    /\ last.op = "tick"
    /\ last.fx.killed # {}
    /\ \E k \in DOMAIN clients : now - clients[k].heartbeat = 30000

====
